---- MODULE Spec2Model ----
(***************************************************************************)
(* Model of the libvips binding layer of bimg (vips.go and type.go):       *)
(*   - the engine lifecycle (Initialize / Shutdown under the mutex m),     *)
(*   - the handle-consuming operations (vipsRotate ... vipsBandjoin2,      *)
(*     vipsWatermark, vipsRead, vipsSave) with their deferred releases,    *)
(*   - the type sniffer vipsImageType with the indices it reads.           *)
(* Native (cgo) calls are nondeterministic in their status; every native   *)
(* call an operation makes is recorded, in order, in the trace of ret.     *)
(***************************************************************************)
EXTENDS FiniteSets, Integers, Sequences, TLC

\* ---------------------------------------------------------------- bounds
\* goroutines that call Initialize / Shutdown concurrently
NumProcs == 2
\* number of Initialize / Shutdown calls that may be started in one run
MaxCalls == 3
\* number of native image handles that may be created in one run of the
\* multi-input operations (and the size of the handle space)
MaxHandles == 4
\* number of handles that may be created in one run of the single-input pipeline
MaxPipeHandles == 2
\* longest byte buffer handed to the sniffer
MaxBufLen == 12

Procs == 1..NumProcs
NoProc == 0
Handles == 1..MaxHandles
Nil == 0

VARIABLES
  build,               \* compile-time facts of the linked libvips
  m,                   \* var m sync.Mutex: NoProc, or the goroutine holding it
  initialized,         \* var initialized bool
  pc,                  \* position of each goroutine in Initialize / Shutdown
  exit,                \* how each goroutine's last lifecycle call ended
  osThread,            \* goroutines pinned with runtime.LockOSThread
  calls,               \* lifecycle calls started so far
  nativeInitCalls,     \* number of C.vips_init calls
  cacheSetCalls,       \* number of times the cache / concurrency settings were applied
  nativeShutdownCalls, \* number of C.vips_shutdown calls
  lastNative,          \* last native lifecycle call and its outcome
  owned,               \* handles the caller currently owns
  nextH,               \* next fresh handle
  budget,              \* number of handles this run may create
  unrefs,              \* unrefs[h]: g_object_unref calls made on handle h
  ret,                 \* the last operation: name, inputs, result, native trace
  buf,                 \* the buffer under the sniffer
  sniffed,             \* result of sniffing buf, once done
  imageMutex,          \* var imageMutex sync.RWMutex: its readers and its writer
  SupportedImageTypes, \* the image types in the map SupportedImageTypes
  tpc,                 \* position of each goroutine in IsImageTypeSupportedByVips
  itShouldDiscover,    \* each goroutine's local itShouldDiscover
  rlocks,              \* RLock calls each goroutine has made
  runlocks,            \* RUnlock calls each goroutine has made
  tcalls               \* IsImageTypeSupportedByVips calls started so far

lifeVars == <<build, m, initialized, pc, exit, osThread, calls,
              nativeInitCalls, cacheSetCalls, nativeShutdownCalls, lastNative>>
opVars == <<owned, nextH, budget, unrefs, ret>>
sniffVars == <<buf, sniffed>>
typeVars == <<imageMutex, SupportedImageTypes, tpc, itShouldDiscover,
              rlocks, runlocks, tcalls>>
vars == <<lifeVars, opVars, sniffVars, typeVars>>

\* ================================================================ lifecycle
\* the pcs at which a goroutine is between m.Lock() and m.Unlock()
InitCriticalPcs == {"i_vips_init", "i_cache", "i_flag"}
ShutCriticalPcs == {"s_check", "s_native"}
CriticalPcs == InitCriticalPcs \cup ShutCriticalPcs

\* m.Lock(): possible only when the mutex is free; the caller then holds it
MutexLock(p) == p

\* defer m.Unlock(): the mutex is free again
MutexUnlock_Held(p) == p
MutexUnlock(p) == NoProc

\* Initialize, lines 79-81 and the wait for m.Lock(): a build against an
\* unsupported libvips panics before the lock is touched
InitializeBegin(p) ==
  /\ pc[p] = "idle"
  /\ calls < MaxCalls
  /\ calls' = calls + 1
  /\ IF build.versionOK
       THEN /\ pc' = [pc EXCEPT ![p] = "i_lock"]
            /\ exit' = [exit EXCEPT ![p] = "running"]
       ELSE /\ pc' = [pc EXCEPT ![p] = "idle"]
            /\ exit' = [exit EXCEPT ![p] = "panic"]
  /\ UNCHANGED <<build, m, initialized, osThread, nativeInitCalls,
                 cacheSetCalls, nativeShutdownCalls, lastNative>>
  /\ UNCHANGED <<opVars, sniffVars, typeVars>>

\* Initialize, lines 83-86: m.Lock(); runtime.LockOSThread(); the two defers
InitializeLock(p) ==
  /\ pc[p] = "i_lock"
  /\ m = NoProc
  /\ m' = MutexLock(p)
  /\ osThread' = osThread \cup {p}
  /\ pc' = [pc EXCEPT ![p] = "i_vips_init"]
  /\ UNCHANGED <<build, initialized, exit, calls, nativeInitCalls,
                 cacheSetCalls, nativeShutdownCalls, lastNative>>
  /\ UNCHANGED <<opVars, sniffVars, typeVars>>

\* Initialize with an 'already initialized' guard in front of vips_init
InitializeVipsInit_Guarded(p) ==
  /\ pc[p] = "i_vips_init"
  /\ IF initialized
       THEN /\ pc' = [pc EXCEPT ![p] = "idle"]
            /\ exit' = [exit EXCEPT ![p] = "return"]
            /\ osThread' = osThread \ {p}
            /\ m' = MutexUnlock(p)
            /\ UNCHANGED <<nativeInitCalls, lastNative>>
       ELSE /\ nativeInitCalls' = nativeInitCalls + 1
            /\ lastNative' = "init_ok"
            /\ pc' = [pc EXCEPT ![p] = "i_cache"]
            /\ UNCHANGED <<m, osThread, exit>>
  /\ UNCHANGED <<build, initialized, calls, cacheSetCalls, nativeShutdownCalls>>
  /\ UNCHANGED <<opVars, sniffVars, typeVars>>

\* Initialize, lines 88-91: C.vips_init; a non-zero status panics, and the
\* panic runs the deferred UnlockOSThread and m.Unlock
InitializeVipsInit(p) ==
  /\ pc[p] = "i_vips_init"
  /\ nativeInitCalls' = nativeInitCalls + 1
  /\ \E status \in {0, 1} :
       IF status # 0
         THEN /\ lastNative' = "init_fail"
              /\ pc' = [pc EXCEPT ![p] = "idle"]
              /\ exit' = [exit EXCEPT ![p] = "panic"]
              /\ osThread' = osThread \ {p}
              /\ m' = MutexUnlock(p)
         ELSE /\ lastNative' = "init_ok"
              /\ pc' = [pc EXCEPT ![p] = "i_cache"]
              /\ UNCHANGED <<m, osThread, exit>>
  /\ UNCHANGED <<build, initialized, calls, cacheSetCalls, nativeShutdownCalls>>
  /\ UNCHANGED <<opVars, sniffVars, typeVars>>

\* Initialize, lines 93-106: cache limits, then the concurrency limit and
\* cache tracing as the environment says (neither changes the state kept here)
InitializeCache(p) ==
  /\ pc[p] = "i_cache"
  /\ cacheSetCalls' = cacheSetCalls + 1
  /\ \E envConcurrencyEmpty \in BOOLEAN, envTraceSet \in BOOLEAN :
       pc' = [pc EXCEPT ![p] = "i_flag"]
  /\ UNCHANGED <<build, m, initialized, exit, osThread, calls, nativeInitCalls,
                 nativeShutdownCalls, lastNative>>
  /\ UNCHANGED <<opVars, sniffVars, typeVars>>

\* Initialize, lines 108-109: initialized = true, then the deferred
\* UnlockOSThread and m.Unlock run as the function returns
InitializeSetFlag(p) ==
  /\ pc[p] = "i_flag"
  /\ initialized' = TRUE
  /\ osThread' = osThread \ {p}
  /\ m' = MutexUnlock(p)
  /\ pc' = [pc EXCEPT ![p] = "idle"]
  /\ exit' = [exit EXCEPT ![p] = "return"]
  /\ UNCHANGED <<build, calls, nativeInitCalls, cacheSetCalls,
                 nativeShutdownCalls, lastNative>>
  /\ UNCHANGED <<opVars, sniffVars, typeVars>>

\* Shutdown, lines 115-116: m.Lock() and the deferred Unlock
ShutdownLock(p) ==
  /\ pc[p] = "idle"
  /\ calls < MaxCalls
  /\ calls' = calls + 1
  /\ m = NoProc
  /\ m' = MutexLock(p)
  /\ pc' = [pc EXCEPT ![p] = "s_check"]
  /\ exit' = [exit EXCEPT ![p] = "running"]
  /\ UNCHANGED <<build, initialized, osThread, nativeInitCalls, cacheSetCalls,
                 nativeShutdownCalls, lastNative>>
  /\ UNCHANGED <<opVars, sniffVars, typeVars>>

\* Shutdown that goes on to vips_shutdown whatever the flag says
ShutdownCheck_NoGuard(p) ==
  /\ pc[p] = "s_check"
  /\ pc' = [pc EXCEPT ![p] = "s_native"]
  /\ UNCHANGED <<m, exit>>
  /\ UNCHANGED <<build, initialized, osThread, calls, nativeInitCalls,
                 cacheSetCalls, nativeShutdownCalls, lastNative>>
  /\ UNCHANGED <<opVars, sniffVars, typeVars>>

\* Shutdown, line 118: if initialized { ... }; when it is not, the function
\* returns and the deferred Unlock runs
ShutdownCheck(p) ==
  /\ pc[p] = "s_check"
  /\ IF initialized
       THEN /\ pc' = [pc EXCEPT ![p] = "s_native"]
            /\ UNCHANGED <<m, exit>>
       ELSE /\ pc' = [pc EXCEPT ![p] = "idle"]
            /\ exit' = [exit EXCEPT ![p] = "return"]
            /\ m' = MutexUnlock(p)
  /\ UNCHANGED <<build, initialized, osThread, calls, nativeInitCalls,
                 cacheSetCalls, nativeShutdownCalls, lastNative>>
  /\ UNCHANGED <<opVars, sniffVars, typeVars>>

\* Shutdown, lines 119-122: C.vips_shutdown(); initialized = false; return
ShutdownNative(p) ==
  /\ pc[p] = "s_native"
  /\ nativeShutdownCalls' = nativeShutdownCalls + 1
  /\ lastNative' = "shutdown"
  /\ initialized' = FALSE
  /\ m' = MutexUnlock(p)
  /\ pc' = [pc EXCEPT ![p] = "idle"]
  /\ exit' = [exit EXCEPT ![p] = "return"]
  /\ UNCHANGED <<build, osThread, calls, nativeInitCalls, cacheSetCalls>>
  /\ UNCHANGED <<opVars, sniffVars, typeVars>>

\* ================================================================ type sniffer
\* type.go, lines 3-22: the ImageType enumeration
UNKNOWN == 0
JPEG == 1
WEBP == 2
PNG == 3
TIFF == 4
GIF == 5
PDF == 6
SVG == 7
MAGICK == 8
\* what stands for the result of a call that panicked instead of returning
NoType == 0 - 1

\* evaluation of  bytes[idxs[1]] == vals[1] && bytes[idxs[2]] == vals[2] && ...
\* left to right with Go's short circuit, from position k on; reads collects
\* every index the evaluation asks for; oob is the index-out-of-range panic
RECURSIVE MatchFrom(_, _, _, _, _)
MatchFrom(bytes, idxs, vals, k, reads) ==
  IF k > Len(idxs)
    THEN [ok |-> TRUE, oob |-> FALSE, reads |-> reads]
    ELSE LET i == idxs[k]
             r == reads \cup {i}
         IN  IF i >= Len(bytes)
               THEN [ok |-> FALSE, oob |-> TRUE, reads |-> r]
               ELSE IF bytes[i + 1] # vals[k]
                      THEN [ok |-> FALSE, oob |-> FALSE, reads |-> r]
                      ELSE MatchFrom(bytes, idxs, vals, k + 1, r)

SniffResult(type, panic, reads, registry) ==
  [type |-> type, panic |-> panic, reads |-> reads, registry |-> registry,
   crash |-> FALSE]

\* readImageType (lines 486-492) probes the registry and then hands &buf[0],
\* memory of a Go slice, to C.free: the outcome of that free is not defined.
\* freeOk says whether the process survives it.
readImageType(reads, magickLoader, freeOk) ==
  IF ~freeOk
    THEN [type |-> NoType, panic |-> FALSE, reads |-> reads, registry |-> TRUE,
          crash |-> TRUE]
    ELSE SniffResult(IF magickLoader THEN MAGICK ELSE UNKNOWN, FALSE, reads, TRUE)

\* vipsImageType: hasMagick is the constant HasMagickSupport, magickLoader says
\* whether the loader name readImageType would return ends in "MagickBuffer".
\* registry tells whether readImageType (the native registry probe) was called.
vipsImageType(bytes, hasMagick, magickLoader, freeOk) ==
  IF Len(bytes) = 0 THEN SniffResult(UNKNOWN, FALSE, {}, FALSE) ELSE
  LET png == MatchFrom(bytes, <<0, 1, 2, 3>>, <<137, 80, 78, 71>>, 1, {}) IN
  IF png.oob THEN SniffResult(NoType, TRUE, png.reads, FALSE) ELSE
  IF png.ok THEN SniffResult(PNG, FALSE, png.reads, FALSE) ELSE
  LET jpeg == MatchFrom(bytes, <<0, 1, 2>>, <<255, 216, 255>>, 1, png.reads) IN
  IF jpeg.oob THEN SniffResult(NoType, TRUE, jpeg.reads, FALSE) ELSE
  IF jpeg.ok THEN SniffResult(JPEG, FALSE, jpeg.reads, FALSE) ELSE
  LET webp == MatchFrom(bytes, <<8, 9, 10, 11>>, <<87, 69, 66, 80>>, 1, jpeg.reads) IN
  IF webp.oob THEN SniffResult(NoType, TRUE, webp.reads, FALSE) ELSE
  IF webp.ok THEN SniffResult(WEBP, FALSE, webp.reads, FALSE) ELSE
  LET tiffLE == MatchFrom(bytes, <<0, 1, 2, 3>>, <<73, 73, 42, 0>>, 1, webp.reads) IN
  IF tiffLE.oob THEN SniffResult(NoType, TRUE, tiffLE.reads, FALSE) ELSE
  IF tiffLE.ok THEN SniffResult(TIFF, FALSE, tiffLE.reads, FALSE) ELSE
  LET tiffBE == MatchFrom(bytes, <<0, 1, 2, 3>>, <<77, 77, 0, 42>>, 1, tiffLE.reads) IN
  IF tiffBE.oob THEN SniffResult(NoType, TRUE, tiffBE.reads, FALSE) ELSE
  IF tiffBE.ok THEN SniffResult(TIFF, FALSE, tiffBE.reads, FALSE) ELSE
  IF hasMagick
    THEN readImageType(tiffBE.reads, magickLoader, freeOk)
    ELSE SniffResult(UNKNOWN, FALSE, tiffBE.reads, FALSE)

\* DetermineImageType (type.go) is vipsImageType
DetermineImageType(bytes, hasMagick, magickLoader, freeOk) ==
  vipsImageType(bytes, hasMagick, magickLoader, freeOk)

\* ---- the buffers the sniffer is run on
\* the byte values the magic numbers are made of, and zero
MagicBytes == {0, 137, 80, 78, 71, 255, 216, 87, 69, 66, 73, 42, 77}
\* starts of files: PNG, JPEG, RIFF/WEBP, TIFF (II and MM), GIF, and nothing
Heads == { <<137, 80, 78, 71, 13, 10, 26, 10>>,
           <<255, 216, 255, 224>>,
           <<82, 73, 70, 70, 0, 0, 0, 0, 87, 69, 66, 80>>,
           <<73, 73, 42, 0>>,
           <<77, 77, 0, 42>>,
           <<71, 73, 70, 56>>,
           << >> }
\* the first n bytes of the file that starts with head and goes on with zeros
Pad(head, n) == [i \in 1..n |-> IF i <= Len(head) THEN head[i] ELSE 0]
\* every such buffer of up to MaxBufLen bytes, as it is and with any one byte
\* replaced by any of the magic bytes
Buffers ==
  { Pad(h, n) : h \in Heads, n \in 0..MaxBufLen }
  \cup UNION { { [Pad(h, n) EXCEPT ![i] = b] : i \in 1..n, b \in MagicBytes }
               : h \in Heads, n \in 1..MaxBufLen }

\* outcomes of the registry probe a build with libmagick support can see:
\* <<the loader found is the magick one, the process survives C.free>>
Probes(hasMagick) ==
  IF hasMagick THEN { <<TRUE, TRUE>>, <<FALSE, TRUE>>, <<FALSE, FALSE>> }
               ELSE { <<FALSE, TRUE>> }

NotSniffed == SniffResult(NoType, FALSE, {}, FALSE)

\* a caller runs DetermineImageType on the buffer
Sniff ==
  /\ sniffed = NotSniffed
  /\ \E probed \in Probes(build.hasMagick) :
       sniffed' = DetermineImageType(buf, build.hasMagick, probed[1], probed[2])
  /\ UNCHANGED buf
  /\ UNCHANGED <<lifeVars, opVars, typeVars>>

\* ================================================================ operations
\* the hard dimension ceiling vipsExtract compares against
MaxSize == 16383
\* the Extend value vipsEmbed falls back to
ExtendBackground == 5
\* stands for the VipsInterpolate object vipsAffine creates and releases
Interpolator == 0 - 1

\* status values a native call may return
Status == {0, 1}

\* one native call: the C function, the images passed to it, its other arguments
Call(fn, hs, a) == [fn |-> fn, hs |-> hs, a |-> a]
\* C.g_object_unref(C.gpointer(h))
Unref(h) == Call("g_object_unref", <<h>>, << >>)

\* catchVipsError: read the message, clear the error state, thread cleanup
catchVipsError ==
  << Call("vips_error_buffer", << >>, << >>),
     Call("vips_error_clear", << >>, << >>),
     Call("vips_thread_shutdown", << >>, << >>) >>

Range(s) == { s[i] : i \in 1..Len(s) }
\* number of g_object_unref calls on h in a trace
UnrefCount(trace, h) == Cardinality({ i \in 1..Len(trace) : trace[i] = Unref(h) })

\* what an operation leaves behind: its name, the value of initialized when it
\* was called, its input handles, the handle and the value it returns, its
\* error, the native calls it made in order, the number of handles created,
\* the arguments it was given besides its handles, and the native calls that
\* returned a non-zero status
Result(op, ins, out, val, err, trace, made) ==
  [op |-> op, engine |-> initialized, ins |-> ins, out |-> out, val |-> val,
   err |-> err, trace |-> trace, made |-> made, args |-> << >>, failed |-> << >>]

NoResult == [op |-> "none", engine |-> TRUE, ins |-> << >>, out |-> Nil,
             val |-> 0, err |-> "nil", trace |-> << >>, made |-> 0,
             args |-> << >>, failed |-> << >>]

\* the result r of an operation called with the arguments args
WithArgs(r, args) == [r EXCEPT !.args = args]
\* the result r of an operation in which the native call fn returned non-zero
Failed(r, fn) == [r EXCEPT !.failed = <<fn>>]

\* the shape every image operation shares:
\*     err := C.native(...); if err != 0 { return nil, catchVipsError() }
\*     return out, nil
\* with the deferred calls run, last registered first, as the function returns
NativeOp_NoCapture(op, ins, status, native, defers) ==
  IF status # 0
    THEN Failed(Result(op, ins, Nil, 0, "engine", native \o defers, 0),
                native[Len(native)].fn)
    ELSE Result(op, ins, nextH, 0, "nil", native \o defers, 1)
NativeOp(op, ins, status, native, defers) ==
  IF status # 0
    THEN Failed(Result(op, ins, Nil, 0, "engine",
                       native \o catchVipsError \o defers, 0),
                native[Len(native)].fn)
    ELSE Result(op, ins, nextH, 0, "nil", native \o defers, 1)

\* the operation returns to its caller: the releases it made are counted, the
\* caller no longer owns what it passed in and owns what it got back
Return(r) ==
  /\ r.made > 0 => nextH <= budget
  /\ ret' = r
  /\ unrefs' = [h \in Handles |-> unrefs[h] + UnrefCount(r.trace, h)]
  /\ owned' = (owned \ Range(r.ins)) \cup (IF r.out # Nil THEN {r.out} ELSE {})
  /\ nextH' = nextH + r.made
  /\ UNCHANGED budget
  /\ UNCHANGED <<lifeVars, sniffVars, typeVars>>

\* ---- parameter values the callers pass
Angles == {90}
Directions == {1}
Zooms == {2}
\* <<left, top>> and <<width, height>> of a crop
Origins == { <<0 - 5, 3>>, <<3, 0 - 5>>, <<0 - 5, 0 - 5>> }
Sizes == { <<MaxSize, MaxSize>>, <<MaxSize + 1, 10>>, <<10, MaxSize + 1>> }
Extends == {0 - 1, 0, 5, 6}
Shrinks == {2}
\* buffers handed to vipsRead and vipsShrinkJpeg: a JPEG, a PNG, an unknown
\* file of twelve bytes, a one-byte buffer and the empty buffer
LoadBuffers == { Pad(<<255, 216, 255, 224>>, 12),
                 Pad(<<71, 73, 70, 56>>, 12),
                 <<0>>,
                 << >> }
\* buffers handed to vipsShrinkJpeg
ShrinkBuffers == { Pad(<<255, 216, 255, 224>>, 12), << >> }


vipsRotate_NoUnref ==
  \E image \in owned, angle \in Angles, status \in Status :
    Return(NativeOp("vipsRotate", <<image>>, status,
                    <<Call("vips_rotate", <<image>>, <<angle>>)>>, << >>))

vipsRotate ==
  \E image \in owned, angle \in Angles, status \in Status :
    Return(NativeOp("vipsRotate", <<image>>, status,
                    <<Call("vips_rotate", <<image>>, <<angle>>)>>,
                    <<Unref(image)>>))

vipsFlip ==
  \E image \in owned, direction \in Directions, status \in Status :
    Return(NativeOp("vipsFlip", <<image>>, status,
                    <<Call("vips_flip_bridge", <<image>>, <<direction>>)>>,
                    <<Unref(image)>>))

vipsZoom ==
  \E image \in owned, zoom \in Zooms, status \in Status :
    Return(NativeOp("vipsZoom", <<image>>, status,
                    <<Call("vips_zoom_bridge", <<image>>, <<zoom, zoom>>)>>,
                    <<Unref(image)>>))

\* no release of image is deferred; only the two C strings are freed
vipsWatermark ==
  \E image \in owned, status \in Status :
    Return(NativeOp("vipsWatermark", <<image>>, status,
                    <<Call("vips_watermark", <<image>>, << >>)>>,
                    <<Call("free", << >>, << >>), Call("free", << >>, << >>)>>))

\* max (lines 624-626): int(math.Max(float64(x), 0))
max_Identity(x) == x
max(x) == IF x > 0 THEN x ELSE 0

vipsExtract_WidthOnly ==
  \E image \in owned, origin \in Origins, size \in Sizes, status \in Status :
    LET left == origin[1]
        top == origin[2]
        width == size[1]
        height == size[2]
    IN
    IF width > MaxSize
      THEN /\ status = 0
           /\ Return(WithArgs(Result("vipsExtract", <<image>>, Nil, 0, "size",
                                     <<Unref(image)>>, 0),
                              <<left, top, width, height>>))
      ELSE Return(WithArgs(NativeOp("vipsExtract", <<image>>, status,
                    <<Call("vips_extract_area_bridge", <<image>>,
                           <<max(left), max(top), width, height>>)>>,
                    <<Unref(image)>>),
                    <<left, top, width, height>>))

\* vipsExtract (lines 373-388): clamp the origin, refuse a region beyond
\* MaxSize before any native call, else extract
vipsExtract ==
  \E image \in owned, origin \in Origins, size \in Sizes, status \in Status :
    LET left == origin[1]
        top == origin[2]
        width == size[1]
        height == size[2]
    IN
    IF width > MaxSize \/ height > MaxSize
      THEN /\ status = 0
           /\ Return(WithArgs(Result("vipsExtract", <<image>>, Nil, 0, "size",
                                     <<Unref(image)>>, 0),
                              <<left, top, width, height>>))
      ELSE Return(WithArgs(NativeOp("vipsExtract", <<image>>, status,
                    <<Call("vips_extract_area_bridge", <<image>>,
                           <<max(left), max(top), width, height>>)>>,
                    <<Unref(image)>>),
                    <<left, top, width, height>>))

\* &buf[0] is taken before the release of input is deferred: an empty buf
\* panics with input not released
vipsShrinkJpeg ==
  \E b \in ShrinkBuffers, input \in owned, shrink \in Shrinks, status \in Status :
    IF Len(b) = 0
      THEN /\ status = 0
           /\ Return(Result("vipsShrinkJpeg", <<input>>, Nil, 0, "panic", << >>, 0))
      ELSE Return(NativeOp("vipsShrinkJpeg", <<input>>, status,
                    <<Call("vips_jpegload_buffer_shrink", << >>, <<Len(b), shrink>>)>>,
                    <<Unref(input)>>))

vipsShrink ==
  \E input \in owned, shrink \in Shrinks, status \in Status :
    Return(NativeOp("vipsShrink", <<input>>, status,
                    <<Call("vips_shrink_bridge", <<input>>, <<shrink, shrink>>)>>,
                    <<Unref(input)>>))

vipsEmbed ==
  \E input \in owned, extend \in Extends, status \in Status :
    LET e == IF extend > 5 THEN ExtendBackground ELSE extend
    IN  Return(WithArgs(NativeOp("vipsEmbed", <<input>>, status,
                    <<Call("vips_embed_bridge", <<input>>, <<e>>)>>,
                    <<Unref(input)>>),
                    <<extend>>))

vipsInsert ==
  \E main \in owned, sub \in owned, status \in Status :
    Return(NativeOp("vipsInsert", <<main, sub>>, status,
                    <<Call("vips_insert_bridge", <<main, sub>>, << >>)>>,
                    <<Unref(sub), Unref(main)>>))

\* deferred, last registered first: unref(interpolator), unref(input), free(cstring)
vipsAffine ==
  \E input \in owned, status \in Status :
    Return(NativeOp("vipsAffine", <<input>>, status,
                    <<Call("vips_interpolate_new", << >>, << >>),
                      Call("vips_affine_interpolator", <<input>>, << >>)>>,
                    <<Unref(Interpolator), Unref(input), Call("free", << >>, << >>)>>))

vipsGaussianBlur ==
  \E image \in owned, status \in Status :
    Return(NativeOp("vipsGaussianBlur", <<image>>, status,
                    <<Call("vips_gaussblur_bridge", <<image>>, << >>)>>,
                    <<Unref(image)>>))

vipsSharpen ==
  \E image \in owned, status \in Status :
    Return(NativeOp("vipsSharpen", <<image>>, status,
                    <<Call("vips_sharpen_bridge", <<image>>, << >>)>>,
                    <<Unref(image)>>))

vipsExtractBand ==
  \E image \in owned, status \in Status :
    Return(NativeOp("vipsExtractBand", <<image>>, status,
                    <<Call("vips_extract_band_bridge", <<image>>, << >>)>>,
                    <<Unref(image)>>))

vipsLinear1 ==
  \E image \in owned, status \in Status :
    Return(NativeOp("vipsLinear1", <<image>>, status,
                    <<Call("vips_linear1_bridge", <<image>>, << >>)>>,
                    <<Unref(image)>>))

vipsBlack ==
  \E status \in Status :
    Return(NativeOp("vipsBlack", << >>, status,
                    <<Call("vips_black_bridge", << >>, << >>)>>, << >>))

vipsAdd_UnrefLeftTwice ==
  \E left \in owned, right \in owned, status \in Status :
    Return(NativeOp("vipsAdd", <<left, right>>, status,
                    <<Call("vips_add_bridge", <<left, right>>, << >>)>>,
                    <<Unref(left), Unref(left)>>))

vipsAdd ==
  \E left \in owned, right \in owned, status \in Status :
    Return(NativeOp("vipsAdd", <<left, right>>, status,
                    <<Call("vips_add_bridge", <<left, right>>, << >>)>>,
                    <<Unref(right), Unref(left)>>))

vipsMultiply ==
  \E left \in owned, right \in owned, status \in Status :
    Return(NativeOp("vipsMultiply", <<left, right>>, status,
                    <<Call("vips_multiply_bridge", <<left, right>>, << >>)>>,
                    <<Unref(right), Unref(left)>>))

vipsDivide ==
  \E left \in owned, right \in owned, status \in Status :
    Return(NativeOp("vipsDivide", <<left, right>>, status,
                    <<Call("vips_divide_bridge", <<left, right>>, << >>)>>,
                    <<Unref(right), Unref(left)>>))

vipsIthenelse ==
  \E cond \in owned, in1 \in owned, in2 \in owned, status \in Status :
    Return(NativeOp("vipsIthenelse", <<cond, in1, in2>>, status,
                    <<Call("vips_ifthenelse_bridge", <<cond, in1, in2>>, << >>)>>,
                    <<Unref(in2), Unref(in1), Unref(cond)>>))

vipsBandjoin2 ==
  \E in1 \in owned, in2 \in owned, status \in Status :
    Return(NativeOp("vipsBandjoin2", <<in1, in2>>, status,
                    <<Call("vips_bandjoin2_bridge", <<in1, in2>>, << >>)>>,
                    <<Unref(in2), Unref(in1)>>))

\* ---- load
\* vipsRead with a check of the lifecycle flag in front
vipsRead_Guarded ==
  \E b \in LoadBuffers, probed \in Probes(build.hasMagick), status \in Status :
    LET sn == vipsImageType(b, build.hasMagick, probed[1], probed[2])
        probe == IF sn.registry
                   THEN <<Call("vips_foreign_find_load_buffer", << >>, <<Len(b)>>),
                          Call("free", << >>, << >>)>>
                   ELSE << >>
        load == <<Call("vips_init_image", << >>, <<Len(b), sn.type>>)>>
    IN  IF ~initialized
          THEN /\ status = 0
               /\ Return(WithArgs(Result("vipsRead", << >>, Nil, UNKNOWN, "lifecycle", << >>, 0), b))
        ELSE IF sn.panic \/ sn.crash
          THEN /\ status = 0
               /\ Return(WithArgs(Result("vipsRead", << >>, Nil, NoType,
                                         IF sn.panic THEN "panic" ELSE "crash",
                                         probe, 0), b))
        ELSE IF sn.type = UNKNOWN
          THEN /\ status = 0
               /\ Return(WithArgs(Result("vipsRead", << >>, Nil, UNKNOWN,
                                         "unsupported", probe, 0), b))
        ELSE IF status # 0
          THEN Return(WithArgs(Failed(Result("vipsRead", << >>, Nil, UNKNOWN, "engine",
                                             probe \o load \o catchVipsError, 0),
                                      "vips_init_image"), b))
          ELSE Return(WithArgs(Result("vipsRead", << >>, nextH, sn.type, "nil",
                                      probe \o load, 1), b))

\* vipsRead (lines 223-240) on the buffer b: sniff, refuse UNKNOWN, else
\* C.vips_init_image; probed is what the registry probe does, status the
\* status of the native load
vipsReadResult(b, probed, status) ==
  LET sn == vipsImageType(b, build.hasMagick, probed[1], probed[2])
      probe == IF sn.registry
                 THEN <<Call("vips_foreign_find_load_buffer", << >>, <<Len(b)>>),
                        Call("free", << >>, << >>)>>
                 ELSE << >>
      load == <<Call("vips_init_image", << >>, <<Len(b), sn.type>>)>>
  IN  IF sn.panic \/ sn.crash
        THEN WithArgs(Result("vipsRead", << >>, Nil, NoType,
                             IF sn.panic THEN "panic" ELSE "crash", probe, 0), b)
      ELSE IF sn.type = UNKNOWN
        THEN WithArgs(Result("vipsRead", << >>, Nil, UNKNOWN, "unsupported", probe, 0), b)
      ELSE IF status # 0
        THEN WithArgs(Failed(Result("vipsRead", << >>, Nil, UNKNOWN, "engine",
                                    probe \o load \o catchVipsError, 0),
                             "vips_init_image"), b)
        ELSE WithArgs(Result("vipsRead", << >>, nextH, sn.type, "nil",
                             probe \o load, 1), b)

\* a load that never reaches the native loader has no status to draw
ReadChoice(b, probed, status) ==
  vipsReadResult(b, probed, 0).made = 0 => status = 0

vipsRead ==
  \E b \in LoadBuffers, probed \in Probes(build.hasMagick), status \in Status :
    /\ ReadChoice(b, probed, status)
    /\ Return(vipsReadResult(b, probed, status))

\* what a query on a released image may do: answer either way, or crash
Dangling == {0, 1, 2}

\* vipsColourspaceIsSupportedBuffer (lines 242-249) and vipsInterpretationBuffer
\* (lines 255-262): load, release the image, then query the released image
QueryBuffer(op, query, b, probed, status, after) ==
  LET r == vipsReadResult(b, probed, status)
      h == r.out
  IN  IF r.err # "nil"
        THEN [r EXCEPT !.op = op, !.val = 0]
        ELSE [r EXCEPT !.op = op, !.out = Nil,
                       !.val = IF after = 2 THEN 0 ELSE after,
                       !.err = IF after = 2 THEN "crash" ELSE "nil",
                       !.trace = r.trace \o <<Unref(h), Call(query, <<h>>, << >>)>>]

vipsColourspaceIsSupportedBuffer ==
  \E b \in LoadBuffers, probed \in Probes(build.hasMagick), status \in Status,
     after \in Dangling :
    /\ ReadChoice(b, probed, status)
    /\ vipsReadResult(b, probed, status).err # "nil" => after = 0
    /\ Return(QueryBuffer("vipsColourspaceIsSupportedBuffer",
                          "vips_colourspace_issupported_bridge",
                          b, probed, status, after))

vipsInterpretationBuffer ==
  \E b \in LoadBuffers, probed \in Probes(build.hasMagick), status \in Status,
     after \in Dangling :
    /\ ReadChoice(b, probed, status)
    /\ vipsReadResult(b, probed, status).err # "nil" => after = 0
    /\ Return(QueryBuffer("vipsInterpretationBuffer",
                          "vips_image_guess_interpretation_bridge",
                          b, probed, status, after))

\* ---- flatten
\* vipsFlattenBackground (lines 268-287): an image with alpha is flattened and
\* released, an image without alpha is returned as it is; when the native
\* flatten fails the function returns before the release
vipsFlattenBackground ==
  \E image \in owned, alpha \in {0, 1}, status \in Status :
    LET query == <<Call("has_alpha_channel", <<image>>, << >>)>>
        flatten == <<Call("vips_flatten_background_brigde", <<image>>, << >>)>>
    IN  IF alpha = 1
          THEN IF status # 0
                 THEN Return(WithArgs(Failed(
                        Result("vipsFlattenBackground", <<image>>, Nil, 0, "engine",
                               query \o flatten \o catchVipsError, 0),
                        "vips_flatten_background_brigde"), <<alpha>>))
                 ELSE Return(WithArgs(
                        Result("vipsFlattenBackground", <<image>>, nextH, 0, "nil",
                               query \o flatten \o <<Unref(image)>>, 1), <<alpha>>))
          ELSE /\ status = 0
               /\ Return(WithArgs(
                        Result("vipsFlattenBackground", <<image>>, image, 0, "nil",
                               query, 0), <<alpha>>))

\* ---- save
\* the default interpretation vipsPreSave resolves 0 to
InterpretationSRGB == 22
\* Type values handed to vipsSave; 9 is outside the enumeration
SaveTypes == {UNKNOWN, JPEG, WEBP, PNG, 9}
\* <<o.NoProfile, o.Interpretation>>
SaveOptions == { <<FALSE, 0>>, <<TRUE, 1>> }

\* vipsPreSave (lines 289-312): supported is the answer of the colourspace
\* capability query, status the status of the conversion
vipsPreSave(image, noProfile, interpretation, supported, status) ==
  LET strip == IF noProfile THEN <<Call("remove_profile", <<image>>, << >>)>> ELSE << >>
      interp == IF interpretation = 0 THEN InterpretationSRGB ELSE interpretation
      query == <<Call("vips_colourspace_issupported_bridge", <<image>>, << >>)>>
      convert == <<Call("vips_colourspace_bridge", <<image>>, <<interp>>)>>
  IN  IF supported
        THEN IF status # 0
               THEN [image |-> Nil, err |-> "engine", made |-> 0,
                     trace |-> strip \o query \o convert \o catchVipsError]
               ELSE [image |-> nextH, err |-> "nil", made |-> 1,
                     trace |-> strip \o query \o convert]
        ELSE [image |-> image, err |-> "nil", made |-> 0, trace |-> strip \o query]

\* the encoder the switch on o.Type (lines 329-339) selects
Encoder_WebpByDefault(type) ==
  IF type = JPEG THEN "vips_jpegsave_bridge"
  ELSE IF type = PNG THEN "vips_pngsave_bridge"
  ELSE "vips_webpsave_bridge"
Encoder(type) ==
  IF type = WEBP THEN "vips_webpsave_bridge"
  ELSE IF type = PNG THEN "vips_pngsave_bridge"
  ELSE "vips_jpegsave_bridge"

\* <<the image handed to vipsSave has an alpha channel, the image the
\* colourspace conversion makes of it has one>>, each 1 or 0
Looks == { <<0, 0>>, <<1, 1>>, <<1, 0>>, <<0, 1>> }

\* whether the image vipsPreSave hands back (lines 302-311) has an alpha
\* channel: it is the converted image when a conversion was made, and the
\* image passed in otherwise
EncodedAlpha_Flattened(look, converted) == 0
EncodedAlpha(look, converted) == IF converted THEN look[2] ELSE look[1]

\* vipsSave (lines 314-352): defer unref(image); pre-save; defer unref(tmpImage);
\* encode; the deferred releases run last registered first.  args keeps
\* o.Type, whether image has alpha and whether the encoded image has
vipsSave ==
  \E image \in owned, type \in SaveTypes, o \in SaveOptions, supported \in BOOLEAN,
     csStatus \in Status, saveStatus \in Status, look \in Looks :
    LET pre == vipsPreSave(image, o[1], o[2], supported, csStatus)
        encode == <<Call(Encoder(type), <<pre.image>>, << >>)>>
        defers == <<Unref(pre.image), Unref(image)>>
        args == <<type, look[1], EncodedAlpha(look, pre.made = 1)>>
    IN  /\ ~supported => csStatus = 0
        /\ pre.made = 0 => look[2] = look[1]
        /\ IF pre.err # "nil"
             THEN /\ saveStatus = 0
                  /\ Return(WithArgs(Failed(
                        Result("vipsSave", <<image>>, Nil, 0, pre.err,
                               pre.trace \o <<Unref(image)>>, 0),
                        "vips_colourspace_bridge"), args))
             ELSE IF saveStatus # 0
               THEN Return(WithArgs(Failed(
                        Result("vipsSave", <<image>>, Nil, 0, "engine",
                               pre.trace \o encode \o catchVipsError \o defers,
                               pre.made),
                        Encoder(type)), args))
               ELSE Return(WithArgs(
                        Result("vipsSave", <<image>>, Nil, 1, "nil",
                               pre.trace \o encode
                                 \o <<Call("g_free", << >>, << >>),
                                      Call("vips_error_clear", << >>, << >>)>>
                                 \o defers,
                               pre.made), args))

\* getImageBuffer (lines 354-371): encode image as JPEG; image stays with the
\* caller and is not released
getImageBuffer ==
  \E image \in owned, status \in Status :
    LET encode == <<Call("vips_jpegsave_bridge", <<image>>, << >>)>>
    IN  IF status # 0
          THEN Return(WithArgs(Failed(
                 Result("getImageBuffer", << >>, Nil, 0, "engine",
                        encode \o catchVipsError, 0),
                 "vips_jpegsave_bridge"), <<image>>))
          ELSE Return(WithArgs(
                 Result("getImageBuffer", << >>, Nil, 1, "nil",
                        encode \o <<Call("vips_error_clear", << >>, << >>),
                                    Call("g_free", << >>, << >>)>>, 0),
                 <<image>>))

\* ================================================================ type support
\* the types discovery enters in the map
ImageTypes == JPEG..MAGICK

\* imageMutex.RLock(): possible while no goroutine holds the write lock
RLock(p) ==
  /\ imageMutex.writer = NoProc
  /\ imageMutex' = [imageMutex EXCEPT !.readers = @ \cup {p}]
  /\ rlocks' = [rlocks EXCEPT ![p] = @ + 1]

\* imageMutex.RUnlock()
RUnlock(p) ==
  /\ imageMutex' = [imageMutex EXCEPT !.readers = @ \ {p}]
  /\ runlocks' = [runlocks EXCEPT ![p] = @ + 1]

\* IsImageTypeSupportedByVips, line 54: imageMutex.RLock()
SupportedRLock(p) ==
  /\ tpc[p] = "idle"
  /\ tcalls < MaxCalls
  /\ tcalls' = tcalls + 1
  /\ RLock(p)
  /\ tpc' = [tpc EXCEPT ![p] = "t_len"]
  /\ UNCHANGED <<SupportedImageTypes, itShouldDiscover, runlocks>>
  /\ UNCHANGED <<lifeVars, opVars, sniffVars>>

\* line 57: itShouldDiscover := len(SupportedImageTypes) == 0
SupportedLen(p) ==
  /\ tpc[p] = "t_len"
  /\ itShouldDiscover' = [itShouldDiscover EXCEPT ![p] = (SupportedImageTypes = {})]
  /\ tpc' = [tpc EXCEPT ![p] = IF SupportedImageTypes = {} THEN "t_runlock"
                                                            ELSE "t_lookup"]
  /\ UNCHANGED <<imageMutex, SupportedImageTypes, rlocks, runlocks, tcalls>>
  /\ UNCHANGED <<lifeVars, opVars, sniffVars>>

\* lines 58-59: if itShouldDiscover { imageMutex.RUnlock()
SupportedRUnlockEarly(p) ==
  /\ tpc[p] = "t_runlock"
  /\ RUnlock(p)
  /\ tpc' = [tpc EXCEPT ![p] = "d_lock"]
  /\ UNCHANGED <<SupportedImageTypes, itShouldDiscover, rlocks, tcalls>>
  /\ UNCHANGED <<lifeVars, opVars, sniffVars>>

\* discoverSupportedImageTypes (line 60): imageMutex.Lock()
DiscoverLock(p) ==
  /\ tpc[p] = "d_lock"
  /\ imageMutex.writer = NoProc
  /\ imageMutex.readers = {}
  /\ imageMutex' = [imageMutex EXCEPT !.writer = p]
  /\ tpc' = [tpc EXCEPT ![p] = "d_write"]
  /\ UNCHANGED <<SupportedImageTypes, itShouldDiscover, rlocks, runlocks, tcalls>>
  /\ UNCHANGED <<lifeVars, opVars, sniffVars>>

\* discoverSupportedImageTypes: the map is filled, one entry per image type
DiscoverWrite(p) ==
  /\ tpc[p] = "d_write"
  /\ SupportedImageTypes' = ImageTypes
  /\ tpc' = [tpc EXCEPT ![p] = "d_unlock"]
  /\ UNCHANGED <<imageMutex, itShouldDiscover, rlocks, runlocks, tcalls>>
  /\ UNCHANGED <<lifeVars, opVars, sniffVars>>

\* discoverSupportedImageTypes: imageMutex.Unlock()
DiscoverUnlock(p) ==
  /\ tpc[p] = "d_unlock"
  /\ imageMutex' = [imageMutex EXCEPT !.writer = NoProc]
  /\ tpc' = [tpc EXCEPT ![p] = "t_lookup"]
  /\ UNCHANGED <<SupportedImageTypes, itShouldDiscover, rlocks, runlocks, tcalls>>
  /\ UNCHANGED <<lifeVars, opVars, sniffVars>>

\* line 64: supported, ok := SupportedImageTypes[t]
SupportedLookup(p) ==
  /\ tpc[p] = "t_lookup"
  /\ tpc' = [tpc EXCEPT ![p] = IF itShouldDiscover[p] THEN "t_return"
                                                      ELSE "t_runlock_late"]
  /\ UNCHANGED <<imageMutex, SupportedImageTypes, itShouldDiscover, rlocks,
                 runlocks, tcalls>>
  /\ UNCHANGED <<lifeVars, opVars, sniffVars>>

\* lines 65-67: if !itShouldDiscover { imageMutex.RUnlock() }
SupportedRUnlockLate(p) ==
  /\ tpc[p] = "t_runlock_late"
  /\ RUnlock(p)
  /\ tpc' = [tpc EXCEPT ![p] = "t_return"]
  /\ UNCHANGED <<SupportedImageTypes, itShouldDiscover, rlocks, tcalls>>
  /\ UNCHANGED <<lifeVars, opVars, sniffVars>>

\* lines 69-72: the call returns; the goroutine may call again
SupportedReturn(p) ==
  /\ tpc[p] = "t_return"
  /\ tpc' = [tpc EXCEPT ![p] = "idle"]
  /\ UNCHANGED <<imageMutex, SupportedImageTypes, itShouldDiscover, rlocks,
                 runlocks, tcalls>>
  /\ UNCHANGED <<lifeVars, opVars, sniffVars>>

\* ================================================================ specifications
\* no goroutine is in IsImageTypeSupportedByVips and nothing is discovered yet
InitTypes ==
  /\ imageMutex = [readers |-> {}, writer |-> NoProc]
  /\ SupportedImageTypes = {}
  /\ tpc = [p \in Procs |-> "idle"]
  /\ itShouldDiscover = [p \in Procs |-> FALSE]
  /\ rlocks = [p \in Procs |-> 0]
  /\ runlocks = [p \in Procs |-> 0]
  /\ tcalls = 0

Builds == [versionOK : BOOLEAN, hasMagick : BOOLEAN]

InitOps(handles) ==
  /\ budget = handles
  /\ owned = {}
  /\ nextH = 1
  /\ unrefs = [h \in Handles |-> 0]
  /\ ret = NoResult

InitSniffIdle ==
  /\ buf = << >>
  /\ sniffed = NotSniffed

\* the process before the package's init() has called Initialize
InitLife ==
  /\ build \in Builds
  /\ m = NoProc
  /\ initialized = FALSE
  /\ pc = [p \in Procs |-> "idle"]
  /\ exit = [p \in Procs |-> "none"]
  /\ osThread = {}
  /\ calls = 0
  /\ nativeInitCalls = 0
  /\ cacheSetCalls = 0
  /\ nativeShutdownCalls = 0
  /\ lastNative = "none"
  /\ InitOps(MaxPipeHandles)
  /\ InitTypes
  /\ InitSniffIdle

\* the process once init() has run Initialize to its end
InitLoaded ==
  /\ build \in {b \in Builds : b.versionOK}
  /\ m = NoProc
  /\ initialized = TRUE
  /\ pc = [p \in Procs |-> "idle"]
  /\ exit = [p \in Procs |-> "none"]
  /\ osThread = {}
  /\ calls = 1
  /\ nativeInitCalls = 1
  /\ cacheSetCalls = 1
  /\ nativeShutdownCalls = 0
  /\ lastNative = "init_ok"

\* the process once Shutdown has been called after that
InitStopped ==
  /\ build \in {b \in Builds : b.versionOK}
  /\ m = NoProc
  /\ initialized = FALSE
  /\ pc = [p \in Procs |-> "idle"]
  /\ exit = [p \in Procs |-> "none"]
  /\ osThread = {}
  /\ calls = 2
  /\ nativeInitCalls = 1
  /\ cacheSetCalls = 1
  /\ nativeShutdownCalls = 1
  /\ lastNative = "shutdown"

\* ---- the pipeline of one caller; nothing stops a caller from running it
\* after Shutdown
Init ==
  /\ InitLoaded \/ InitStopped
  /\ InitOps(MaxPipeHandles)
  /\ InitTypes
  /\ InitSniffIdle

Next ==
  \/ vipsRead
  \/ vipsBlack
  \/ vipsRotate
  \/ vipsFlip
  \/ vipsZoom
  \/ vipsWatermark
  \/ vipsExtract
  \/ vipsShrinkJpeg
  \/ vipsShrink
  \/ vipsEmbed
  \/ vipsAffine
  \/ vipsGaussianBlur
  \/ vipsSharpen
  \/ vipsExtractBand
  \/ vipsLinear1
  \/ vipsSave
  \/ getImageBuffer
  \/ vipsFlattenBackground
  \/ vipsColourspaceIsSupportedBuffer
  \/ vipsInterpretationBuffer

Spec == Init /\ [][Next]_vars

\* ---- a caller combining images with the multi-input operations
InitMulti ==
  /\ InitLoaded \/ InitStopped
  /\ InitOps(MaxHandles)
  /\ InitTypes
  /\ InitSniffIdle

NextMulti ==
  \/ vipsRead
  \/ vipsBlack
  \/ vipsInsert
  \/ vipsAdd
  \/ vipsMultiply
  \/ vipsDivide
  \/ vipsIthenelse
  \/ vipsBandjoin2

SpecMulti == InitMulti /\ [][NextMulti]_vars

\* ---- every operation, on the handles of the single-input pipeline
NextAll ==
  \/ Next
  \/ NextMulti

SpecAll == Init /\ [][NextAll]_vars

\* ---- goroutines calling Initialize and Shutdown
NextLife ==
  \/ \E p \in Procs : InitializeBegin(p)
  \/ \E p \in Procs : InitializeLock(p)
  \/ \E p \in Procs : InitializeVipsInit(p)
  \/ \E p \in Procs : InitializeCache(p)
  \/ \E p \in Procs : InitializeSetFlag(p)
  \/ \E p \in Procs : ShutdownLock(p)
  \/ \E p \in Procs : ShutdownCheck(p)
  \/ \E p \in Procs : ShutdownNative(p)

SpecLife == InitLife /\ [][NextLife]_vars

\* ---- the sniffer on every buffer of Buffers
InitSniff ==
  /\ InitLoaded
  /\ InitOps(MaxPipeHandles)
  /\ InitTypes
  /\ buf \in Buffers
  /\ sniffed = NotSniffed

NextSniff == Sniff

SpecSniff == InitSniff /\ [][NextSniff]_vars

\* ---- goroutines calling IsImageTypeSupportedByVips
NextTypes ==
  \/ \E p \in Procs : SupportedRLock(p)
  \/ \E p \in Procs : SupportedLen(p)
  \/ \E p \in Procs : SupportedRUnlockEarly(p)
  \/ \E p \in Procs : DiscoverLock(p)
  \/ \E p \in Procs : DiscoverWrite(p)
  \/ \E p \in Procs : DiscoverUnlock(p)
  \/ \E p \in Procs : SupportedLookup(p)
  \/ \E p \in Procs : SupportedRUnlockLate(p)
  \/ \E p \in Procs : SupportedReturn(p)

SpecTypes == Init /\ [][NextTypes]_vars

\* ================================================================ properties
SingleOps == {"vipsRotate", "vipsFlip", "vipsZoom", "vipsExtract", "vipsEmbed",
              "vipsAffine", "vipsGaussianBlur", "vipsSharpen", "vipsExtractBand",
              "vipsLinear1", "vipsShrink", "vipsShrinkJpeg"}
MultiOps == {"vipsInsert", "vipsAdd", "vipsMultiply", "vipsDivide",
             "vipsIthenelse", "vipsBandjoin2"}
Distinct(s) == \A i, j \in 1..Len(s) : i # j => s[i] # s[j]
\* the trace holds a call of the native function fn
Called(trace, fn) == \E i \in 1..Len(trace) : trace[i].fn = fn

\* C1: when a single-input operation has returned, with a handle or with an
\* error, g_object_unref has been called on its input handle exactly once.
C1_SingleInputReleasedOnce ==
  (ret.op \in SingleOps /\ ret.err # "panic")
    => /\ UnrefCount(ret.trace, ret.ins[1]) = 1
       /\ unrefs[ret.ins[1]] = 1

C1_Witness ==
  /\ ret.op = "vipsAffine"
  /\ ret.err = "engine"
  /\ unrefs[ret.ins[1]] = 1

\* C2: when a multi-input operation called with pairwise distinct handles has
\* returned, each of its input handles has been released exactly once.
C2_MultiInputReleasedOnce ==
  (ret.op \in MultiOps /\ Distinct(ret.ins))
    => \A i \in 1..Len(ret.ins) : /\ UnrefCount(ret.trace, ret.ins[i]) = 1
                                  /\ unrefs[ret.ins[i]] = 1

C2_Witness ==
  /\ ret.op = "vipsIthenelse"
  /\ ret.err = "nil"
  /\ Distinct(ret.ins)
  /\ \A i \in 1..3 : unrefs[ret.ins[i]] = 1

\* C3 (as claimed): when vipsWatermark has returned, its input handle has been
\* released exactly once.
C3_WatermarkReleasesInput ==
  ret.op = "vipsWatermark" => unrefs[ret.ins[1]] = 1

\* C4 (as claimed): when vipsSave has returned, the handle passed in and the
\* handle pre-save created, if any, have each been released exactly once.
C4_SaveReleasesEachOnce ==
  ret.op = "vipsSave"
    => /\ unrefs[ret.ins[1]] = 1
       /\ ret.made = 1 => unrefs[nextH - 1] = 1

\* C5 (as claimed): a goroutine inside Initialize while the engine is already
\* initialized makes no native init call, applies no settings and leaves the
\* flag alone.
C5_SecondInitializeNoOp ==
  [][\A p \in Procs :
       (pc[p] \in InitCriticalPcs /\ initialized)
         => /\ nativeInitCalls' = nativeInitCalls
            /\ cacheSetCalls' = cacheSetCalls
            /\ initialized' = initialized]_vars

\* C5 (amended): a goroutine inside Initialize while the engine is already
\* initialized calls the native init again, applies the cache and concurrency
\* settings again when that call succeeded, and in every case leaves the flag
\* true.
C5_SecondInitializeRepeats ==
  [][\A p \in Procs :
       (pc[p] \in InitCriticalPcs /\ initialized)
         => /\ initialized'
            /\ (pc[p] = "i_vips_init" /\ pc'[p] # "i_vips_init")
                 => nativeInitCalls' = nativeInitCalls + 1
            /\ (pc[p] = "i_cache" /\ pc'[p] # "i_cache")
                 => cacheSetCalls' = cacheSetCalls + 1]_vars

C5_Witness ==
  /\ initialized
  /\ nativeShutdownCalls = 0
  /\ nativeInitCalls >= 2
  /\ cacheSetCalls >= 2

C7_MutualExclusion ==
  /\ Cardinality({p \in Procs : pc[p] \in CriticalPcs}) <= 1
  /\ \A p \in Procs : pc[p] \in CriticalPcs <=> m = p
  /\ \A p \in Procs : pc[p] = "idle" => m # p

C7_Witness ==
  \E p \in Procs, q \in Procs :
    /\ exit[p] = "panic"
    /\ pc[p] = "idle"
    /\ lastNative = "init_fail"
    /\ pc[q] \in CriticalPcs
    /\ m = q

Errors == {"nil", "engine", "unsupported", "size", "panic", "crash"}

\* C8 (as claimed): an operation called while the engine is not initialized
\* returns the lifecycle error and makes no native call.
C8_LifecycleViolation ==
  (ret.op # "none" /\ ~ret.engine)
    => /\ ret.err = "lifecycle"
       /\ ret.trace = << >>

\* C8 (amended): no operation returns a lifecycle error; a load called while
\* the engine is not initialized goes to the native loader whenever the buffer
\* sniffs as a known type, and returns the loader's outcome.
C8_LoadIgnoresLifecycle ==
  /\ ret.err \in Errors
  /\ (ret.op = "vipsRead" /\ ~ret.engine)
       => /\ ret.val \notin {UNKNOWN, NoType} => ret.err = "nil"
          /\ ret.err \in {"nil", "engine"} <=> Called(ret.trace, "vips_init_image")
          /\ ret.err = "nil" => ret.out \in Handles

C8_Witness ==
  /\ ret.op = "vipsRead"
  /\ ~ret.engine
  /\ ret.err = "nil"
  /\ ret.val = JPEG
  /\ ret.out \in owned

\* C9 (as claimed): sniffing a buffer of at most 11 bytes reads no index at
\* or beyond the buffer's length.
C9_SniffReadsInBounds ==
  (sniffed # NotSniffed /\ Len(buf) <= 11)
    => \A i \in sniffed.reads : i < Len(buf)

\* C10 (as claimed): sniffing a buffer shorter than 12 bytes returns Unknown.
C10_ShortBufferUnknown ==
  (sniffed # NotSniffed /\ Len(buf) < 12)
    => /\ ~sniffed.panic
       /\ ~sniffed.crash
       /\ sniffed.type = UNKNOWN

\* the buffer b starts with the bytes vals at index from (counted from 0)
HasBytes(b, from, vals) ==
  /\ Len(b) >= from + Len(vals)
  /\ \A i \in 1..Len(vals) : b[from + i] = vals[i]
IsPNG(b) == HasBytes(b, 0, <<137, 80, 78, 71>>)
IsJPEG(b) == HasBytes(b, 0, <<255, 216, 255>>)
IsRiffWEBP(b) == HasBytes(b, 0, <<82, 73, 70, 70>>) /\ HasBytes(b, 8, <<87, 69, 66, 80>>)
IsTIFF(b) == HasBytes(b, 0, <<73, 73, 42, 0>>) \/ HasBytes(b, 0, <<77, 77, 0, 42>>)

\* C11 (as claimed): for a buffer of at least 12 bytes sniffing returns PNG,
\* JPEG, WEBP (RIFF container with 'WEBP' at 8-11) or TIFF by the magic bytes,
\* and Unknown when none of them match and the registry reports no match.
C11_SniffByMagic ==
  (sniffed # NotSniffed /\ Len(buf) >= 12 /\ ~sniffed.crash)
    => /\ IsPNG(buf) => sniffed.type = PNG
       /\ IsJPEG(buf) => sniffed.type = JPEG
       /\ IsRiffWEBP(buf) => sniffed.type = WEBP
       /\ IsTIFF(buf) => sniffed.type = TIFF
       /\ (~IsPNG(buf) /\ ~IsJPEG(buf) /\ ~IsRiffWEBP(buf) /\ ~IsTIFF(buf)
             /\ sniffed.type # MAGICK)
            => sniffed.type = UNKNOWN

\* C12 (as claimed): vipsRead of a buffer that sniffs as Unknown, the empty
\* buffer and the buffers shorter than 12 bytes among them, returns the
\* unsupported-format error with format Unknown, makes no native load call
\* and creates no handle.
C12_UnknownLoadRefused ==
  (ret.op = "vipsRead" /\ (Len(ret.args) < 12 \/ ret.err = "unsupported"))
    => /\ ret.err = "unsupported"
       /\ ret.val = UNKNOWN
       /\ ret.out = Nil
       /\ ret.made = 0
       /\ ~Called(ret.trace, "vips_init_image")

\* C13: vipsExtract with width or height above MaxSize returns the size
\* error, calls neither the native extract nor the error capture, and
\* releases its input exactly once.
C13_OversizeCropRefused ==
  (ret.op = "vipsExtract" /\ (ret.args[3] > MaxSize \/ ret.args[4] > MaxSize))
    => /\ ret.err = "size"
       /\ ret.out = Nil
       /\ ret.made = 0
       /\ ~Called(ret.trace, "vips_extract_area_bridge")
       /\ ~Called(ret.trace, "vips_error_buffer")
       /\ UnrefCount(ret.trace, ret.ins[1]) = 1
       /\ unrefs[ret.ins[1]] = 1

C13_Witness ==
  /\ ret.op = "vipsExtract"
  /\ ret.args[3] <= MaxSize
  /\ ret.args[4] > MaxSize
  /\ ret.err = "size"

\* C14: vipsExtract within the ceiling passes max(left, 0), max(top, 0), width
\* and height, in that order, to the native extract, and fails only when the
\* native extract does.
C14_CropOriginClamped ==
  (ret.op = "vipsExtract" /\ ret.args[3] <= MaxSize /\ ret.args[4] <= MaxSize)
    => LET left == ret.args[1]
           top == ret.args[2]
       IN  /\ ret.trace[1] =
                Call("vips_extract_area_bridge", ret.ins,
                     <<IF left < 0 THEN 0 ELSE left, IF top < 0 THEN 0 ELSE top,
                       ret.args[3], ret.args[4]>>)
           /\ ret.err \in {"nil", "engine"}
           /\ ret.err = "engine" <=> ret.failed = <<"vips_extract_area_bridge">>

C14_Witness ==
  /\ ret.op = "vipsExtract"
  /\ ret.args[1] < 0
  /\ ret.args[2] > 0
  /\ ret.err = "nil"
  /\ ret.out \in owned

\* C15 (as claimed): vipsEmbed passes an extend mode within 0..5 to the native
\* embed unchanged and replaces every other mode, above 5 or negative, by
\* ExtendBackground.
C15_ExtendOutOfRangeReplaced ==
  ret.op = "vipsEmbed"
    => ret.trace[1] =
         Call("vips_embed_bridge", ret.ins,
              <<IF ret.args[1] \in 0..5 THEN ret.args[1] ELSE ExtendBackground>>)

Encoders == {"vips_webpsave_bridge", "vips_pngsave_bridge", "vips_jpegsave_bridge"}
\* the positions of the trace that hold a call of a native function in fns
CallsOf(trace, fns) == { i \in 1..Len(trace) : trace[i].fn \in fns }

\* C16: vipsSave whose pre-save succeeded calls exactly one native encoder:
\* the WEBP one for type WEBP, the PNG one for type PNG, the JPEG one for
\* every other type; vipsSave whose pre-save failed calls none.
C16_OneEncoderByType ==
  ret.op = "vipsSave"
    => LET type == ret.args[1]
           enc == CallsOf(ret.trace, Encoders)
       IN  IF ret.failed = <<"vips_colourspace_bridge">>
             THEN enc = {}
             ELSE /\ Cardinality(enc) = 1
                  /\ \A i \in enc :
                       ret.trace[i].fn =
                         IF type = WEBP THEN "vips_webpsave_bridge"
                         ELSE IF type = PNG THEN "vips_pngsave_bridge"
                         ELSE "vips_jpegsave_bridge"

C16_Witness ==
  /\ ret.op = "vipsSave"
  /\ ret.args[1] \notin {JPEG, WEBP, PNG}
  /\ ret.err = "nil"
  /\ Called(ret.trace, "vips_jpegsave_bridge")

\* C17 (as claimed): no vipsSave hands an image with an alpha channel to the
\* encoder.
C17_EncoderNeverGetsAlpha ==
  (ret.op = "vipsSave" /\ CallsOf(ret.trace, Encoders) # {})
    => ret.args[3] = 0

\* C17 (amended): vipsSave and its pre-save make no alpha query and no
\* flatten call, and an image that is not colourspace-converted reaches the
\* encoder with the alpha channel it came with.  Flattening is the separate
\* vipsFlattenBackground: an image with alpha is flattened into a new handle
\* and released once (not released when the native flatten fails), an image
\* without alpha is returned as it is, with no flatten call and no release.
C17_FlattenIsNotInSave ==
  /\ ret.op = "vipsSave"
       => /\ CallsOf(ret.trace, {"has_alpha_channel",
                                 "vips_flatten_background_brigde"}) = {}
          /\ (ret.made = 0 /\ CallsOf(ret.trace, Encoders) # {})
               => ret.args[3] = ret.args[2]
  /\ (ret.op = "vipsFlattenBackground" /\ ret.args[1] = 0)
       => /\ ret.out = ret.ins[1]
          /\ ret.err = "nil"
          /\ ret.trace = <<Call("has_alpha_channel", ret.ins, << >>)>>
  /\ (ret.op = "vipsFlattenBackground" /\ ret.args[1] = 1)
       => /\ Called(ret.trace, "vips_flatten_background_brigde")
          /\ ret.err = "nil"
               => /\ ret.out \notin Range(ret.ins) \cup {Nil}
                  /\ UnrefCount(ret.trace, ret.ins[1]) = 1
          /\ ret.err # "nil"
               => /\ ret.out = Nil
                  /\ UnrefCount(ret.trace, ret.ins[1]) = 0

C17_Witness ==
  /\ ret.op = "vipsSave"
  /\ ret.args[2] = 1
  /\ ret.args[3] = 1
  /\ ret.made = 0
  /\ ret.err = "nil"
  /\ ret.args[1] = PNG

\* C18 (as claimed): in the native calls of every operation, no call other
\* than a release is made on a handle after that handle was released.
C18_NoUseAfterRelease ==
  \A i, j \in 1..Len(ret.trace) :
    (i < j /\ ret.trace[i].fn = "g_object_unref"
           /\ ret.trace[j].fn # "g_object_unref")
      => \A h \in Range(ret.trace[i].hs) : h \notin Range(ret.trace[j].hs)

\* C19: an operation in which a native call returned non-zero made that call
\* once, ran the error capture (read the message, clear the error state,
\* thread cleanup) right after it and only once, made nothing but releases
\* and frees after the capture, and returned the engine error with no
\* handle; an operation that returned no error made no capture.
C19_FailureCapturedOnce ==
  /\ ret.failed # << >>
       => LET at == CallsOf(ret.trace, {ret.failed[1]})
          IN  /\ Len(ret.failed) = 1
              /\ Cardinality(at) = 1
              /\ \A i \in at :
                   /\ i + 3 <= Len(ret.trace)
                   /\ SubSeq(ret.trace, i + 1, i + 3) = catchVipsError
                   /\ \A j \in (i + 4)..Len(ret.trace) :
                        ret.trace[j].fn \in {"g_object_unref", "free"}
              /\ Cardinality(CallsOf(ret.trace, {"vips_error_buffer"})) = 1
              /\ ret.err = "engine"
              /\ ret.out = Nil
  /\ ret.err = "engine" => ret.failed # << >>
  /\ ret.err = "nil" => CallsOf(ret.trace, {"vips_error_buffer"}) = {}

C19_Witness ==
  /\ ret.op = "vipsSave"
  /\ ret.failed = <<"vips_pngsave_bridge">>
  /\ ret.err = "engine"
  /\ ret.made = 1

\* C20 (as claimed): in IsImageTypeSupportedByVips every RLock is matched by
\* exactly one RUnlock when the call returns, and the goroutine holds the
\* read lock whenever it reads the map: at the len and at the lookup, so no
\* read is made while another goroutine holds the write lock.
C20_MapReadUnderReadLock ==
  \A p \in Procs :
    /\ tpc[p] = "t_return"
         => /\ rlocks[p] = runlocks[p]
            /\ p \notin imageMutex.readers
    /\ tpc[p] \in {"t_len", "t_lookup"}
         => /\ p \in imageMutex.readers
            /\ imageMutex.writer = NoProc

====
